---- MODULE Spec2Model ----
(***************************************************************************)
(* A model of zettelgeist/zettel.py: the schema validator (parse_zettel),  *)
(* the Zettel record with its primitive field operations, the two-pass     *)
(* batch engine (process_zettel_command_line_options), get_yaml, flatten,  *)
(* ZettelLoader and the output framing of main.                            *)
(*                                                                         *)
(* Python values are tagged records [t |-> tag, v |-> payload]:            *)
(*   None  -> [t |-> "null", v |-> <<>>]                                   *)
(*   str   -> [t |-> "str",  v |-> sequence of one-character strings]      *)
(*   list  -> [t |-> "list", v |-> sequence of values]                     *)
(*   dict  -> [t |-> "dict", v |-> sequence of <<key, value>> pairs in     *)
(*            insertion order, keys unique]                                *)
(* A validation function is TRUE when it returns and FALSE when it raises  *)
(* ParseError. An operation of the Zettel class yields [z |-> the          *)
(* dictionary self.zettel afterwards, exc |-> "none" or the exception      *)
(* that left the call].                                                    *)
(***************************************************************************)
EXTENDS Integers, Sequences, FiniteSets, TLC

\* ------------------------------------------------------------------ bounds
MaxLen == 3
MaxPositions == 2
MaxDocKeys == 2
MaxBatch == 3
MaxRecords == 2

\* ------------------------------------------------------------------ values
NULL == [t |-> "null", v |-> <<>>]
Str(s) == [t |-> "str", v |-> s]
List(items) == [t |-> "list", v |-> items]
Dict(pairs) == [t |-> "dict", v |-> pairs]

IsNone(x) == x.t = "null"
IsStr(x) == x.t = "str"
IsList(x) == x.t = "list"
IsDict(x) == x.t = "dict"

Range(s) == {s[i] : i \in DOMAIN s}

\* dict primitives, over the sequence of pairs
Keys(d) == {d[i][1] : i \in DOMAIN d}
HasKey(d, k) == k \in Keys(d)
DictGet(d, k, default) ==
    IF HasKey(d, k) THEN d[CHOOSE i \in DOMAIN d : d[i][1] = k][2] ELSE default
DictSet(d, k, x) ==
    IF HasKey(d, k)
    THEN [i \in DOMAIN d |-> IF d[i][1] = k THEN <<k, x>> ELSE d[i]]
    ELSE Append(d, <<k, x>>)
DictDel(d, k) == SelectSeq(d, LAMBDA p : p[1] # k)

\* ------------------------------------------------------------------ schema
ZettelStringFields ==
    <<"title", "bibkey", "bibtex", "ris", "inline", "url", "summary", "comment", "note">>
ZettelListFields == <<"tags", "mentions">>
ZettelStructuredFields == <<"cite", "dates">>
ZettelExtraFields == <<"filename", "document">>
ZettelFieldsOrdered ==
    ZettelStringFields \o ZettelListFields \o ZettelStructuredFields \o ZettelExtraFields
ZettelFields == Range(ZettelFieldsOrdered)
CitationFields == {"bibkey", "page"}
DatesFields == {"year", "era"}

\* ------------------------------------------------------------------ validator
check_field_names(doc, name_set) == \A key \in Keys(doc) : key \in name_set

parse_check_zettel_field_names(doc) == check_field_names(doc, ZettelFields)
parse_check_citation_field_names(doc) == check_field_names(doc, CitationFields)
parse_check_dates_field_names(doc) == check_field_names(doc, DatesFields)

parse_string_field(doc, field, required) ==
    LET value == DictGet(doc, field, NULL)
    IN  IF IsNone(value)
        THEN ~required /\ ~HasKey(doc, field)
        ELSE IsStr(value)

parse_list_of_string_field(doc, field, required) ==
    LET value == DictGet(doc, field, NULL)
    IN  IF IsNone(value)
        THEN ~required /\ ~HasKey(doc, field)
        ELSE /\ IsList(value)
             /\ LET doc2 == [pos \in DOMAIN value.v |-> <<<<field, pos - 1>>, value.v[pos]>>]
                IN  \A key \in Keys(doc2) : parse_string_field(doc2, key, TRUE)

parse_citation(doc, field) ==
    LET value == DictGet(doc, field, NULL)
    IN  IF IsNone(value)
        THEN TRUE
        ELSE /\ IsDict(value)
             /\ parse_check_citation_field_names(value.v)
             /\ parse_string_field(value.v, "bibkey", TRUE)
             /\ parse_string_field(value.v, "page", FALSE)

parse_dates(doc, field) ==
    LET value == DictGet(doc, field, NULL)
    IN  IF IsNone(value)
        THEN TRUE
        ELSE /\ IsDict(value)
             /\ parse_check_dates_field_names(value.v)
             /\ parse_string_field(value.v, "year", TRUE)
             /\ parse_string_field(value.v, "era", FALSE)

parse_zettel(doc) ==
    /\ IsDict(doc)
    /\ parse_check_zettel_field_names(doc.v)
    /\ \A i \in DOMAIN ZettelStringFields :
           parse_string_field(doc.v, ZettelStringFields[i], FALSE)
    /\ parse_string_field(doc.v, "document", FALSE)
    /\ parse_list_of_string_field(doc.v, "tags", FALSE)
    /\ parse_list_of_string_field(doc.v, "mentions", FALSE)
    /\ parse_citation(doc.v, "cite")
    /\ parse_dates(doc.v, "dates")

\* the outcome of a call that ends with parse_zettel(self.zettel)
Validated(z) == [z |-> z, exc |-> IF parse_zettel(z) THEN "none" ELSE "ParseError"]
Returned(z) == [z |-> z, exc |-> "none"]
Raised(z, e) == [z |-> z, exc |-> e]

\* ------------------------------------------------------------------ Python helpers
\* the characters of the key names, for the places where a key is used as text
Chars(name) ==
    CASE name = "title" -> <<"t", "i", "t", "l", "e">>
      [] name = "tags" -> <<"t", "a", "g", "s">>
      [] name = "cite" -> <<"c", "i", "t", "e">>
      [] name = "dates" -> <<"d", "a", "t", "e", "s">>
      [] name = "filename" -> <<"f", "i", "l", "e", "n", "a", "m", "e">>
      [] name = "document" -> <<"d", "o", "c", "u", "m", "e", "n", "t">>
      [] name = "bibkey" -> <<"b", "i", "b", "k", "e", "y">>
      [] name = "page" -> <<"p", "a", "g", "e">>
      [] name = "year" -> <<"y", "e", "a", "r">>
      [] name = "era" -> <<"e", "r", "a">>
      [] name = "extra" -> <<"e", "x", "t", "r", "a">>
      [] OTHER -> <<"b", "o", "g", "u", "s">>

\* len(x): defined for str, list and dict; TypeError for None
HasLen(x) == ~IsNone(x)
PyLen(x) == Len(x.v)

\* set(x): the elements of a list, the characters of a str, the keys of a dict
PySet(x) ==
    CASE IsList(x) -> Range(x.v)
      [] IsStr(x) -> {Str(<<x.v[i]>>) : i \in DOMAIN x.v}
      [] IsDict(x) -> {Str(Chars(k)) : k \in Keys(x.v)}
      [] OTHER -> {}

Hashable(x) == IsNone(x) \/ IsStr(x)

\* list.sort(reverse=True) on a list of integers
RECURSIVE InsertDesc(_, _)
InsertDesc(s, x) ==
    IF s = <<>> THEN <<x>>
    ELSE IF x >= Head(s) THEN <<x>> \o s
    ELSE <<Head(s)>> \o InsertDesc(Tail(s), x)

RECURSIVE SortDesc(_)
SortDesc(s) == IF s = <<>> THEN <<>> ELSE InsertDesc(SortDesc(Tail(s)), Head(s))

RemoveAt(s, i) == SubSeq(s, 1, i - 1) \o SubSeq(s, i + 1, Len(s))

\* del x[position] for an integer position: [val |-> x afterwards, exc |-> ...]
DelItem(x, position) ==
    CASE IsList(x) ->
           LET n == Len(x.v)
               idx == IF position < 0 THEN position + n ELSE position
           IN  IF idx >= 0 /\ idx < n
               THEN [val |-> List(RemoveAt(x.v, idx + 1)), exc |-> "none"]
               ELSE [val |-> x, exc |-> "IndexError"]
      [] IsDict(x) -> [val |-> x, exc |-> "KeyError"]
      [] OTHER -> [val |-> x, exc |-> "TypeError"]

\* for position in positions: del x[position]
RECURSIVE DelItems(_, _)
DelItems(x, positions) ==
    IF positions = <<>> THEN [val |-> x, exc |-> "none"]
    ELSE LET r == DelItem(x, Head(positions))
         IN  IF r.exc # "none" THEN r ELSE DelItems(r.val, Tail(positions))

\* x[key] = value for a string key
SetItem(x, key, value) ==
    IF IsDict(x)
    THEN [val |-> Dict(DictSet(x.v, key, value)), exc |-> "none"]
    ELSE [val |-> x, exc |-> "TypeError"]

\* ------------------------------------------------------------------ class Zettel
Zettel_init(data) == Validated(data)

set_field(z, name, value) == Validated(Dict(DictSet(z.v, name, value)))

delete_field(z, name) == Validated(Dict(DictDel(z.v, name)))

reset_list_field(z, name) == Validated(Dict(DictSet(z.v, name, List(<<>>))))

delete_list_field_entries(z, name, positions) ==
    IF ~HasKey(z.v, name) THEN Returned(z)
    ELSE LET r == DelItems(DictGet(z.v, name, NULL), SortDesc(positions))
             z1 == Dict(DictSet(z.v, name, r.val))
         IN  IF r.exc # "none" THEN Raised(z1, r.exc)
             ELSE IF ~HasLen(r.val) THEN Raised(z1, "TypeError")
             ELSE IF PyLen(r.val) = 0 THEN Returned(Dict(DictDel(z1.v, name)))
             ELSE Returned(z1)

\* append_list_field without the membership test
append_list_field_always(z, name, value) ==
    LET cur == DictGet(z.v, name, List(<<>>))
        z1 == Dict(DictSet(z.v, name, cur))
    IN  IF IsNone(cur) \/ ~Hashable(value) THEN Raised(z1, "TypeError")
        ELSE IF ~IsList(cur) THEN Raised(z1, "AttributeError")
        ELSE Validated(Dict(DictSet(z1.v, name, List(Append(cur.v, value)))))

append_list_field(z, name, value) ==
    LET cur == DictGet(z.v, name, List(<<>>))
        z1 == Dict(DictSet(z.v, name, cur))
    IN  IF IsNone(cur) \/ \E x \in PySet(cur) : ~Hashable(x) THEN Raised(z1, "TypeError")
        ELSE IF ~Hashable(value) THEN Raised(z1, "TypeError")
        ELSE IF value \in PySet(cur) THEN Returned(z1)
        ELSE IF ~IsList(cur) THEN Raised(z1, "AttributeError")
        ELSE Validated(Dict(DictSet(z1.v, name, List(Append(cur.v, value)))))

get_list_field(z, name) == DictGet(z.v, name, List(<<>>))

set_citation(z, bibkey, page) ==
    LET citation == IF IsNone(page) THEN <<<<"bibkey", bibkey>>>>
                    ELSE <<<<"bibkey", bibkey>>, <<"page", page>>>>
    IN  Validated(Dict(DictSet(z.v, "cite", Dict(citation))))

has_citation(z) == HasKey(z.v, "cite")

\* the common body of set_cite_bibkey, set_cite_page, set_dates_year, set_dates_era
\* the sub-field setters creating the structured field when it is absent
SetSubFieldCreating(z, field, sub, value) ==
    IF ~HasLen(value) THEN Raised(z, "TypeError")
    ELSE IF PyLen(value) = 0 THEN Returned(z)
    ELSE LET r == SetItem(DictGet(z.v, field, Dict(<<>>)), sub, value)
         IN  IF r.exc # "none" THEN Raised(z, r.exc)
             ELSE Validated(Dict(DictSet(z.v, field, r.val)))

SetSubField(z, field, sub, value) ==
    IF ~HasLen(value) THEN Raised(z, "TypeError")
    ELSE IF PyLen(value) = 0 THEN Returned(z)
    ELSE IF HasKey(z.v, field)
         THEN LET r == SetItem(DictGet(z.v, field, NULL), sub, value)
              IN  IF r.exc # "none" THEN Raised(z, r.exc)
                  ELSE Validated(Dict(DictSet(z.v, field, r.val)))
         ELSE Validated(z)

set_cite_bibkey(z, bibkey) == SetSubField(z, "cite", "bibkey", bibkey)

set_cite_page(z, page) == SetSubField(z, "cite", "page", page)

has_dates(z) == HasKey(z.v, "dates")

set_dates_year(z, year) == SetSubField(z, "dates", "year", year)

set_dates_era(z, era) == SetSubField(z, "dates", "era", era)

set_dates(z, year, era) ==
    LET dates == IF IsNone(era) THEN <<<<"year", year>>>>
                 ELSE <<<<"year", year>>, <<"era", era>>>>
    IN  Validated(Dict(DictSet(z.v, "dates", Dict(dates))))

get_document(z) == DictGet(z.v, "document", Str(<<>>))

get_filename(z) == DictGet(z.v, "filename", Str(<<>>))

\* ------------------------------------------------------------------ get_yaml
\* len(data.splitlines()) for text whose only line break is "\n"
RECURSIVE CountNewlines(_)
CountNewlines(s) ==
    IF s = <<>> THEN 0
    ELSE (IF Head(s) = "\n" THEN 1 ELSE 0) + CountNewlines(Tail(s))

SplitLinesCount(s) ==
    IF s = <<>> THEN 0
    ELSE CountNewlines(s) + (IF s[Len(s)] = "\n" THEN 0 ELSE 1)

\* str_presenter: block style only when the text has more than one line
str_presenter(data) ==
    [kind |-> "scalar", style |-> IF SplitLinesCount(data) > 1 THEN "|" ELSE "", v |-> data]

\* the node yaml.dump writes for a value: literal() text goes through
\* str_presenter, everything else through the default representers
RECURSIVE Represent(_)
Represent(x) ==
    CASE IsStr(x) -> [kind |-> "scalar", style |-> "", v |-> x.v]
      [] IsNone(x) -> [kind |-> "null", style |-> "", v |-> <<>>]
      [] IsList(x) -> [kind |-> "seq", style |-> "",
                       v |-> [i \in DOMAIN x.v |-> Represent(x.v[i])]]
      [] OTHER -> [kind |-> "map", style |-> "",
                   v |-> [i \in DOMAIN x.v |-> <<x.v[i][1], Represent(x.v[i][2])>>]]

\* x.copy(): only list and dict have it
HasCopy(x) == IsList(x) \/ IsDict(x)

\* the loop of get_yaml over ZettelFieldsOrdered[i..]: the entries of yaml_zettel
RECURSIVE YamlEntries(_, _, _)
YamlEntries(z, restrict_to_fields, i) ==
    IF i > Len(ZettelFieldsOrdered) THEN <<>>
    ELSE LET key == ZettelFieldsOrdered[i]
             rest == YamlEntries(z, restrict_to_fields, i + 1)
             value == DictGet(z.v, key, NULL)
         IN  IF ~HasKey(z.v, key) THEN rest
             ELSE IF key \notin restrict_to_fields THEN rest
             ELSE IF key \in Range(ZettelStringFields)
                  THEN <<<<key, str_presenter(value.v)>>>> \o rest
             ELSE IF key # "document" /\ HasCopy(value)
                  THEN <<<<key, Represent(value)>>>> \o rest
             ELSE rest

\* get_yaml without its test 'key not in restrict_to_fields'
get_yaml_unrestricted(z, restrict_to_fields) ==
    IF ~parse_zettel(z) THEN [z |-> z, exc |-> "ParseError", ret |-> <<>>]
    ELSE [z |-> z, exc |-> "none", ret |-> YamlEntries(z, ZettelFields, 1)]

\* get_yaml: ret is the dumped mapping, a sequence of <<key, node>> entries; the
\* empty sequence is the empty string
get_yaml(z, restrict_to_fields) ==
    IF ~parse_zettel(z) THEN [z |-> z, exc |-> "ParseError", ret |-> <<>>]
    ELSE [z |-> z, exc |-> "none", ret |-> YamlEntries(z, restrict_to_fields, 1)]

\* yaml.load of a dumped node
RECURSIVE Construct(_)
Construct(n) ==
    CASE n.kind = "scalar" -> Str(n.v)
      [] n.kind = "null" -> NULL
      [] n.kind = "seq" -> List([i \in DOMAIN n.v |-> Construct(n.v[i])])
      [] OTHER -> Dict([i \in DOMAIN n.v |-> <<n.v[i][1], Construct(n.v[i][2])>>])

\* yaml.load of the text of get_yaml: the decoded top-level mapping
yaml_load(entries) == Dict([i \in DOMAIN entries |-> <<entries[i][1], Construct(entries[i][2])>>])

\* ------------------------------------------------------------------ inputs
RECURSIVE SeqsUpTo(_, _)
SeqsUpTo(S, n) ==
    IF n = 0 THEN {<<>>}
    ELSE LET shorter == SeqsUpTo(S, n - 1)
         IN  shorter \cup {Append(s, x) : s \in shorter, x \in S}

A == Str(<<"a">>)
B == Str(<<"b">>)
Empty == Str(<<>>)
Strs == {Empty, A, B}

\* field names handed to the generic field operations: a string field, a list
\* field and an unknown name
ListNames == {"title", "tags", "bogus"}
\* field names handed to set_field and delete_field beside the cite/dates operations
CiteNames == {"title", "cite"}
\* values handed to set_field
SetValues == {A, NULL, List(<<A, A>>)}
\* values handed to append_list_field
AppendValues == Strs \cup {NULL}
\* positions handed to delete_list_field_entries
PositionLists == SeqsUpTo(0 .. (MaxLen - 1), MaxPositions)

\* ------------------------------------------------------------------ state
VARIABLES
    zettel,     \* self.zettel of the record
    exc,        \* "none", or the exception that left the last call
    call,       \* the last call made on the record, with its arguments
    before,     \* self.zettel when the last call was made
    ret,        \* what the last call returned (get_yaml), else <<>>
    vargs,      \* the batch handed to process_zettel_command_line_options
    pass,       \* 0: no batch, 1 / 2: in the first / second loop, 3: returned
    idx,        \* the position of the running loop in vargs
    applied,    \* the positions in vargs of the requests acted on, in call order
    scratch     \* the number of records made by Zettel() with no data: self.zettel of
                \* each of them is the one dict that is the default value of data

vars == <<zettel, exc, call, before, ret, vargs, pass, idx, applied, scratch>>
batchVars == <<vargs, pass, idx, applied>>

\* the model's bound on list lengths
RECURSIVE WithinBounds(_)
WithinBounds(x) ==
    CASE IsList(x) -> Len(x.v) <= MaxLen
      [] IsDict(x) -> \A i \in DOMAIN x.v : WithinBounds(x.v[i][2])
      [] OTHER -> TRUE

\* a call on the constructed record: c is the call, r its outcome
Call(c, r) ==
    /\ pass = 0
    /\ exc = "none"
    /\ call.op # "load"
    /\ WithinBounds(r.z)
    /\ zettel' = r.z
    /\ exc' = r.exc
    /\ call' = c
    /\ before' = zettel
    /\ ret' = IF "ret" \in DOMAIN r THEN r.ret ELSE <<>>
    /\ UNCHANGED <<batchVars, scratch>>

NoBatch == vargs = <<>> /\ pass = 0 /\ idx = 0 /\ applied = <<>>

\* Zettel(): a record from scratch
Init ==
    /\ zettel = Dict(<<>>)
    /\ exc = Zettel_init(Dict(<<>>)).exc
    /\ call = [op |-> "Zettel"]
    /\ before = Dict(<<>>)
    /\ ret = <<>>
    /\ NoBatch
    /\ scratch = 1

SetField(names) ==
    \E name \in names, value \in SetValues :
        Call([op |-> "set_field", name |-> name, value |-> value],
             set_field(zettel, name, value))

DeleteField(names) ==
    \E name \in names :
        Call([op |-> "delete_field", name |-> name], delete_field(zettel, name))

ResetListField(names) ==
    \E name \in names :
        Call([op |-> "reset_list_field", name |-> name], reset_list_field(zettel, name))

DeleteListFieldEntries(names) ==
    \E name \in names, positions \in PositionLists :
        Call([op |-> "delete_list_field_entries", name |-> name, positions |-> positions],
             delete_list_field_entries(zettel, name, positions))

AppendListField(names) ==
    \E name \in names, value \in AppendValues :
        Call([op |-> "append_list_field", name |-> name, value |-> value],
             append_list_field(zettel, name, value))

SetCitation ==
    \E bibkey \in {A}, page \in {NULL, B} :
        Call([op |-> "set_citation", bibkey |-> bibkey, page |-> page],
             set_citation(zettel, bibkey, page))

SetCiteBibkey ==
    \E bibkey \in {Empty, B} :
        Call([op |-> "set_cite_bibkey", value |-> bibkey], set_cite_bibkey(zettel, bibkey))

SetCitePage ==
    \E page \in {Empty, A} :
        Call([op |-> "set_cite_page", value |-> page], set_cite_page(zettel, page))

SetDates ==
    \E year \in {A}, era \in {NULL, B} :
        Call([op |-> "set_dates", year |-> year, era |-> era], set_dates(zettel, year, era))

SetDatesYear ==
    \E year \in {Empty, B} :
        Call([op |-> "set_dates_year", value |-> year], set_dates_year(zettel, year))

SetDatesEra ==
    \E era \in {Empty, A} :
        Call([op |-> "set_dates_era", value |-> era], set_dates_era(zettel, era))

GetYaml ==
    \E restrict_to_fields \in {ZettelFields} \cup SUBSET Keys(zettel.v) :
        Call([op |-> "get_yaml", restrict_to_fields |-> restrict_to_fields],
             get_yaml(zettel, restrict_to_fields))

\* the generic field operations on one record
Next ==
    \/ SetField(ListNames)
    \/ DeleteField(ListNames)
    \/ ResetListField(ListNames)
    \/ DeleteListFieldEntries(ListNames)
    \/ AppendListField(ListNames)

Spec == Init /\ [][Next]_vars

\* the citation and dates operations on one record
NextCite ==
    \/ SetField(CiteNames)
    \/ DeleteField(CiteNames)
    \/ SetCitation
    \/ SetCiteBibkey
    \/ SetCitePage
    \/ SetDates
    \/ SetDatesYear
    \/ SetDatesEra

SpecCite == Init /\ [][NextCite]_vars

\* ------------------------------------------------------------------ loading
\* decoded values a YAML document can hold under a key
RawValues ==
    { NULL, A, Str(<<"a", "\n", "b">>),
      List(<<A, B>>), List(<<A, NULL>>),
      Dict(<<>>),
      Dict(<<<<"bibkey", A>>>>),
      Dict(<<<<"bibkey", A>>, <<"page", B>>>>),
      Dict(<<<<"bibkey", A>>, <<"page", NULL>>>>),
      Dict(<<<<"bibkey", A>>, <<"extra", A>>>>),
      Dict(<<<<"page", B>>>>),
      Dict(<<<<"bibkey", NULL>>>>),
      Dict(<<<<"year", A>>>>),
      Dict(<<<<"year", A>>, <<"era", B>>>>),
      Dict(<<<<"era", B>>>>) }
\* keys a YAML document can hold: one of each category and an unknown one
RawNames == {"title", "tags", "cite", "dates", "filename", "document", "bogus"}

\* the decoded mappings with at most MaxDocKeys keys
RawDocs ==
    {Dict(d) : d \in {s \in SeqsUpTo(RawNames \X RawValues, MaxDocKeys) :
                        \A i, j \in DOMAIN s : i # j => s[i][1] # s[j][1]}}

\* a decoded mapping, before Zettel(data) is called on it
InitLoad ==
    /\ zettel \in RawDocs
    /\ exc = "none"
    /\ call = [op |-> "load"]
    /\ before = zettel
    /\ ret = <<>>
    /\ NoBatch
    /\ scratch = 0

\* Zettel(data)
NewZettel ==
    /\ call.op = "load"
    /\ zettel' = Zettel_init(zettel).z
    /\ exc' = Zettel_init(zettel).exc
    /\ call' = [op |-> "Zettel"]
    /\ before' = zettel
    /\ ret' = <<>>
    /\ UNCHANGED <<batchVars, scratch>>

NextLoad ==
    \/ NewZettel
    \/ GetYaml

SpecLoad == InitLoad /\ [][NextLoad]_vars

\* the decoded mappings get_yaml is called on with a selection of fields: keys of
\* every category in any order
YamlValues == {NULL, A, Str(<<"a", "\n", "b">>), List(<<A, B>>), Dict(<<<<"bibkey", A>>>>)}
YamlNames == {"title", "tags", "cite", "filename", "document"}
YamlDocs ==
    {Dict(d) : d \in {s \in SeqsUpTo(YamlNames \X YamlValues, MaxDocKeys) :
                        \A i, j \in DOMAIN s : i # j => s[i][1] # s[j][1]}}

InitYaml ==
    /\ zettel \in YamlDocs
    /\ exc = "none"
    /\ call = [op |-> "load"]
    /\ before = zettel
    /\ ret = <<>>
    /\ NoBatch
    /\ scratch = 0

NextYaml ==
    \/ NewZettel
    \/ GetYaml

SpecYaml == InitYaml /\ [][NextYaml]_vars

\* ------------------------------------------------------------------ batch engine
Bool(b) == [t |-> "bool", v |-> b]
\* the value of --remove-entries-in-*: whether its two texts convert with int(),
\* and the integers they give
Entries(ok, zettel_id, list_entries) ==
    [t |-> "entries", v |-> [ok |-> ok, zettel_id |-> zettel_id, list_entries |-> list_entries]]

\* not vargs[arg]
Falsy(x) ==
    CASE IsNone(x) -> TRUE
      [] x.t = "bool" -> ~x.v
      [] x.t = "entries" -> FALSE
      [] OTHER -> Len(x.v) = 0

\* sep.join(texts) for a sequence of str values
RECURSIVE Join(_, _)
Join(sep, texts) ==
    IF texts = <<>> THEN <<>>
    ELSE IF Len(texts) = 1 THEN texts[1].v
    ELSE texts[1].v \o sep \o Join(sep, Tail(texts))

\* text.replace(r"\n", "\n"): backslash, n becomes a line break
RECURSIVE ReplaceEscapedNewline(_)
ReplaceEscapedNewline(s) ==
    IF Len(s) < 2 THEN s
    ELSE IF s[1] = "\\" /\ s[2] = "n"
         THEN <<"\n">> \o ReplaceEscapedNewline(SubSeq(s, 3, Len(s)))
         ELSE <<s[1]>> \o ReplaceEscapedNewline(Tail(s))

Whitespace == {" ", "\n", "\t", "\r"}
RECURSIVE LStrip(_)
LStrip(s) == IF s # <<>> /\ Head(s) \in Whitespace THEN LStrip(Tail(s)) ELSE s
RECURSIVE RStrip(_)
RStrip(s) ==
    IF s # <<>> /\ s[Len(s)] \in Whitespace THEN RStrip(SubSeq(s, 1, Len(s) - 1)) ELSE s
Strip(s) == LStrip(RStrip(s))

\* an operation called by the engine: out is [z, exc, log], r the operation's outcome
Logged(op, r) == [z |-> r.z, exc |-> r.exc, log |-> <<[op |-> op, exc |-> r.exc]>>]
NoCall(z) == [z |-> z, exc |-> "none", log |-> <<>>]
\* first, and then (if first returned) second
Then(first, second) ==
    IF first.exc # "none" THEN first
    ELSE [z |-> second.z, exc |-> second.exc, log |-> first.log \o second.log]

\* load_field(name, filename): text is the file's content, None when it cannot be opened
load_field(z, name, text) ==
    IF IsNone(text) THEN Raised(z, "FileNotFoundError")
    ELSE LET r == set_field(z, name, Str(Strip(text.v)))
         IN  IF r.exc # "none" THEN r ELSE Validated(r.z)

\* for text in texts: z.append_list_field(name, text)
RECURSIVE AppendAll(_, _, _)
AppendAll(z, name, texts) ==
    IF texts = <<>> THEN NoCall(z)
    ELSE LET first == Logged("append_list_field", append_list_field(z, name, Head(texts)))
         IN  IF first.exc # "none" THEN first
             ELSE Then(first, AppendAll(first.z, name, Tail(texts)))

\* try: whole(lines[0], lines[1])  except: whole(lines[0])
\* (a bare except: it catches the IndexError of lines[1] and any exception of the call)
PromptStructured(z, lines, op, whole(_, _, _)) ==
    IF Len(lines) = 0 THEN NoCall(z)
    ELSE IF Len(lines) = 1 THEN Logged(op, whole(z, lines[1], NULL))
    ELSE LET first == Logged(op, whole(z, lines[1], lines[2]))
         IN  IF first.exc = "none" THEN first
             ELSE LET second == Logged(op, whole(first.z, lines[1], NULL))
                  IN  [z |-> second.z, exc |-> second.exc, log |-> first.log \o second.log]

\* the branches of the first loop for one truthy request
FirstLoopBody(z, r, id) ==
    CASE r.prefix = "reset" -> Logged("reset_list_field", reset_list_field(z, r.what))
      [] r.prefix = "delete" -> Logged("delete_field", delete_field(z, r.what))
      [] r.prefix = "remove_entries_in" ->
           IF ~r.value.v.ok THEN [z |-> z, exc |-> "SystemExit", log |-> <<>>]
           ELSE IF id = r.value.v.zettel_id
                THEN Logged("delete_list_field_entries",
                            delete_list_field_entries(z, r.what, r.value.v.list_entries))
                ELSE NoCall(z)
      [] OTHER -> NoCall(z)

\* the branches of the second loop for one truthy request; lines is what prompt()
\* reads, text the content of the file a load_ request names
SecondLoopBody(z, r, lines, text) ==
    CASE r.prefix = "set" /\ r.what = "cite" ->
           LET bibkey == r.value.v[1]
               pages == Str(Join(<<",">>, Tail(r.value.v)))
           IN  IF has_citation(z)
               THEN LET first == Logged("set_cite_bibkey", set_cite_bibkey(z, bibkey))
                    IN  Then(first, Logged("set_cite_page", set_cite_page(first.z, pages)))
               ELSE Logged("set_citation", set_citation(z, bibkey, pages))
      [] r.prefix = "set" /\ r.what = "dates" ->
           LET year == r.value.v[1]
               era == Str(Join(<<",">>, Tail(r.value.v)))
           IN  IF has_dates(z)
               THEN LET first == Logged("set_dates_year", set_dates_year(z, year))
                    IN  Then(first, Logged("set_dates_era", set_dates_era(first.z, era)))
               ELSE Logged("set_dates", set_dates(z, year, era))
      [] r.prefix = "set" /\ r.what \notin {"cite", "dates"} ->
           Logged("set_field", set_field(z, r.what, Str(ReplaceEscapedNewline(r.value.v))))
      [] r.prefix = "prompt" ->
           IF r.what \in Range(ZettelStringFields) \cup Range(ZettelExtraFields)
           THEN Logged("set_field", set_field(z, r.what, Str(Join(<<"\n">>, lines))))
           ELSE IF r.what \in Range(ZettelListFields) THEN AppendAll(z, r.what, lines)
           ELSE IF r.what = "dates" THEN PromptStructured(z, lines, "set_dates", set_dates)
           ELSE IF r.what = "cite" THEN PromptStructured(z, lines, "set_citation", set_citation)
           ELSE NoCall(z)
      [] r.prefix = "append" -> AppendAll(z, r.what, r.value.v)
      [] r.prefix = "load" -> Logged("load_field", load_field(z, r.what, text))
      [] OTHER -> NoCall(z)

\* the loop whose body has a branch for the request's prefix
PassOfOneLoop(r) == 2

PassOf(r) == IF r.prefix \in {"reset", "delete", "remove_entries_in"} THEN 1 ELSE 2

\* one iteration of the loop p over vargs[arg]
LoopBody(p, z, r, id, lines, text) ==
    IF Falsy(r.value) \/ PassOf(r) # p THEN NoCall(z)
    ELSE IF PassOf(r) = 1 THEN FirstLoopBody(z, r, id)
    ELSE SecondLoopBody(z, r, lines, text)

\* gen_id: the id of the first (and only) record of a run
FirstId == 0

\* the requests of the batches
Req(prefix, what, value) == [prefix |-> prefix, what |-> what, value |-> value]
ReqSet ==
    { Req("delete", "tags", Bool(TRUE)),
      Req("delete", "tags", Bool(FALSE)),
      Req("reset", "title", Bool(TRUE)),
      Req("remove_entries_in", "tags", Entries(TRUE, 0, <<0>>)),
      Req("remove_entries_in", "tags", Entries(FALSE, 0, <<>>)),
      Req("set", "bogus", A),
      Req("set", "cite", List(<<A, B>>)),
      Req("append", "tags", List(<<A>>)),
      Req("load", "title", A),
      Req("prompt", "dates", Bool(TRUE)) }
\* vargs: a dict, so at most one request per argument name
Batches ==
    {s \in SeqsUpTo(ReqSet, MaxBatch) :
        \A i, j \in DOMAIN s :
            i # j => <<s[i].prefix, s[i].what>> # <<s[j].prefix, s[j].what>>}
\* the records the batches are applied to
BatchDocs ==
    { Dict(<<>>),
      Dict(<<<<"tags", List(<<B, A>>)>>, <<"cite", Dict(<<<<"bibkey", B>>>>)>>>>) }
\* what prompt() reads
PromptLines == {<<>>, <<A>>, <<A, B>>}
\* the content of the file of a load_ request (None: no such file)
FileTexts == {NULL, Str(<<" ", "a">>)}

\* prompt() and open() are reached only in the prompt_ and load_ branches
LinesRead(r) == IF r.prefix = "prompt" /\ ~Falsy(r.value) THEN PromptLines ELSE {<<>>}
TextsRead(r) == IF r.prefix = "load" /\ ~Falsy(r.value) THEN FileTexts ELSE {NULL}

\* process_zettel_command_line_options(z, vargs, id) about to run
InitBatch ==
    /\ zettel \in BatchDocs
    /\ exc = Zettel_init(zettel).exc
    /\ call = [op |-> "process_zettel_command_line_options"]
    /\ before = zettel
    /\ ret = <<>>
    /\ vargs \in Batches
    /\ pass = 1
    /\ idx = 1
    /\ applied = <<>>
    /\ scratch = 0

\* an exception leaves the loops: nothing catches it before main
RunningAfterError(p) == pass = p

Running(p) == pass = p /\ exc = "none"

LoopStep(p) ==
    /\ Running(p)
    /\ idx <= Len(vargs)
    /\ \E lines \in LinesRead(vargs[idx]), text \in TextsRead(vargs[idx]) :
           LET out == LoopBody(p, zettel, vargs[idx], FirstId, lines, text)
           IN  /\ zettel' = out.z
               /\ exc' = out.exc
               /\ applied' = applied \o [k \in DOMAIN out.log |->
                                 [req |-> idx, op |-> out.log[k].op, exc |-> out.log[k].exc]]
               /\ idx' = IF out.exc = "none" THEN idx + 1 ELSE idx
    /\ UNCHANGED <<call, before, ret, vargs, pass, scratch>>

FirstLoopStep == LoopStep(1)

FirstLoopEnd ==
    /\ Running(1)
    /\ idx > Len(vargs)
    /\ pass' = 2
    /\ idx' = 1
    /\ UNCHANGED <<zettel, exc, call, before, ret, vargs, applied, scratch>>

SecondLoopStep == LoopStep(2)

ReturnZ ==
    /\ Running(2)
    /\ idx > Len(vargs)
    /\ pass' = 3
    /\ UNCHANGED <<zettel, exc, call, before, ret, vargs, idx, applied, scratch>>

NextBatch ==
    \/ FirstLoopStep
    \/ FirstLoopEnd
    \/ SecondLoopStep
    \/ ReturnZ

SpecBatch == InitBatch /\ [][NextBatch]_vars

\* batches with --set-cite and --set-dates, with and without the optional page /
\* era, applied to records with and without a citation and dates
StructuredReqSet ==
    { Req("set", "cite", List(<<A>>)),
      Req("set", "cite", List(<<A, B>>)),
      Req("set", "dates", List(<<A>>)),
      Req("set", "dates", List(<<A, B>>)),
      Req("set", "title", A),
      Req("delete", "title", Bool(TRUE)) }
StructuredBatches ==
    {s \in SeqsUpTo(StructuredReqSet, MaxBatch) :
        \A i, j \in DOMAIN s :
            i # j => <<s[i].prefix, s[i].what>> # <<s[j].prefix, s[j].what>>}
StructuredDocs ==
    { Dict(<<>>),
      Dict(<<<<"cite", Dict(<<<<"bibkey", B>>>>)>>>>),
      Dict(<<<<"cite", Dict(<<<<"bibkey", B>>, <<"page", A>>>>)>>>>),
      Dict(<<<<"title", B>>, <<"dates", Dict(<<<<"year", B>>, <<"era", A>>>>)>>>>) }

InitStructured ==
    /\ zettel \in StructuredDocs
    /\ exc = Zettel_init(zettel).exc
    /\ call = [op |-> "process_zettel_command_line_options"]
    /\ before = zettel
    /\ ret = <<>>
    /\ vargs \in StructuredBatches
    /\ pass = 1
    /\ idx = 1
    /\ applied = <<>>
    /\ scratch = 0

SpecStructured == InitStructured /\ [][NextBatch]_vars

\* ------------------------------------------------------------------ output
\* the text yaml.dump(yaml_zettel, default_flow_style=False) writes, for text made
\* of letters, blanks and line breaks
Spaces(n) == [i \in 1 .. n |-> " "]

RECURSIVE TrailingNewlines(_)
TrailingNewlines(s) ==
    IF s # <<>> /\ s[Len(s)] = "\n" THEN 1 + TrailingNewlines(SubSeq(s, 1, Len(s) - 1)) ELSE 0

\* the lines of a block scalar, each on a new line behind the indentation
RECURSIVE BlockLines(_, _)
BlockLines(s, indent) ==
    IF s = <<>> THEN <<>>
    ELSE IF Head(s) = "\n"
         THEN <<"\n">> \o (IF Len(s) > 1 /\ s[2] # "\n" THEN Spaces(indent) ELSE <<>>)
                       \o BlockLines(Tail(s), indent)
         ELSE <<Head(s)>> \o BlockLines(Tail(s), indent)

RECURSIVE EscapeNewlines(_)
EscapeNewlines(s) ==
    IF s = <<>> THEN <<>>
    ELSE (IF Head(s) = "\n" THEN <<"\\", "n">> ELSE <<Head(s)>>) \o EscapeNewlines(Tail(s))

\* a scalar node: '' for the empty text, a literal block for style "|", double
\* quotes for other text with a line break, single quotes around outer blanks,
\* else plain
EmitScalar(n, indent) ==
    IF n.v = <<>> THEN <<"'", "'">>
    ELSE IF n.style = "|"
         THEN LET k == TrailingNewlines(n.v)
                  body == SubSeq(n.v, 1, Len(n.v) - k)
                  chomp == IF k = 0 THEN <<"-">> ELSE IF k = 1 THEN <<>> ELSE <<"+">>
              IN  <<"|">> \o chomp \o BlockLines(<<"\n">> \o body, indent)
                          \o [i \in 1 .. (IF k > 1 THEN k - 1 ELSE 0) |-> "\n"]
    ELSE IF "\n" \in Range(n.v) THEN <<"\"">> \o EscapeNewlines(n.v) \o <<"\"">>
    ELSE IF Head(n.v) = " " \/ n.v[Len(n.v)] = " " THEN <<"'">> \o n.v \o <<"'">>
    ELSE n.v

\* the text behind "key:" or "-" for a node, up to and including its line break:
\* block sequences are not indented under a mapping key, block mappings are
RECURSIVE EmitValue(_, _)
RECURSIVE EmitItems(_, _)
RECURSIVE EmitPairs(_, _)
EmitValue(n, indent) ==
    CASE n.kind = "scalar" -> <<" ">> \o EmitScalar(n, indent + 2) \o <<"\n">>
      [] n.kind = "null" -> <<" ", "n", "u", "l", "l", "\n">>
      [] n.kind = "seq" ->
           IF n.v = <<>> THEN <<" ", "[", "]", "\n">> ELSE <<"\n">> \o EmitItems(n.v, indent)
      [] OTHER ->
           IF n.v = <<>> THEN <<" ", "{", "}", "\n">> ELSE <<"\n">> \o EmitPairs(n.v, indent + 2)

EmitItems(items, indent) ==
    IF items = <<>> THEN <<>>
    ELSE Spaces(indent) \o <<"-">> \o EmitValue(Head(items), indent) \o EmitItems(Tail(items), indent)

EmitPairs(pairs, indent) ==
    IF pairs = <<>> THEN <<>>
    ELSE Spaces(indent) \o Chars(Head(pairs)[1]) \o <<":">>
            \o EmitValue(Head(pairs)[2], indent) \o EmitPairs(Tail(pairs), indent)

\* the str get_yaml returns: "" for no entries, else the dumped mapping
Dump(entries) == EmitPairs(entries, 0)

Dashes == Str(<<"-", "-", "-">>)

\* the end of main with the document framed as it is, without document.rstrip()
main_output_document_as_is(z, restrict_output_fields) ==
    LET y == get_yaml(z, restrict_output_fields)
        yaml_repr_stripped == RStrip(Dump(y.ret))
        document == get_document(z)
    IN  IF y.exc # "none" THEN [z |-> z, exc |-> "none", ret |-> <<>>]
        ELSE IF Len(yaml_repr_stripped) > 0
             THEN [z |-> z, exc |-> "none",
                   ret |-> <<Join(<<"\n">>, <<Dashes, Str(yaml_repr_stripped), Dashes,
                                             document>>) \o <<"\n">>>>]
        ELSE IF Len(document.v) > 0
             THEN [z |-> z, exc |-> "none", ret |-> <<document.v \o <<"\n">>>>]
        ELSE [z |-> z, exc |-> "none", ret |-> <<>>]

\* the end of main: ret is the sequence of texts written to outfile; a ParseError
\* of get_yaml is caught and printed
main_output(z, restrict_output_fields) ==
    LET y == get_yaml(z, restrict_output_fields)
        yaml_repr_stripped == RStrip(Dump(y.ret))
        document == get_document(z)
        doc_stripped == RStrip(document.v)
    IN  IF y.exc # "none" THEN [z |-> z, exc |-> "none", ret |-> <<>>]
        ELSE IF Len(yaml_repr_stripped) > 0
             THEN [z |-> z, exc |-> "none",
                   ret |-> <<Join(<<"\n">>, <<Dashes, Str(yaml_repr_stripped), Dashes,
                                             Str(RStrip(document.v))>>) \o <<"\n">>>>]
        ELSE IF Len(doc_stripped) > 0
             THEN [z |-> z, exc |-> "none", ret |-> <<doc_stripped \o <<"\n">>>>]
        ELSE [z |-> z, exc |-> "none", ret |-> <<>>]

\* the fields of the loaded mappings written out: each absent or with one of these
OutputTitles == {A, Str(<<"a", "\n", "b">>)}
OutputDocuments ==
    {Empty, A, Str(<<"a", "\n">>), Str(<<" ">>), Str(<<" ", "a">>), Str(<<"a", "\n", "b", " ">>)}
Optional(key, values) == {<<>>} \cup {<<<<key, x>>>> : x \in values}
OutputDocs ==
    {Dict(t \o g \o c \o f \o d) :
        t \in Optional("title", OutputTitles),
        g \in Optional("tags", {List(<<A, B>>)}),
        c \in Optional("cite", {Dict(<<<<"bibkey", A>>>>)}),
        f \in Optional("filename", {A}),
        d \in Optional("document", OutputDocuments)}
\* --restrict-output-fields: its default and two selections
OutputRestrictions == {ZettelFields, {"title"}, {"mentions"}}

InitOutput ==
    /\ zettel \in OutputDocs
    /\ exc = "none"
    /\ call = [op |-> "load"]
    /\ before = zettel
    /\ ret = <<>>
    /\ NoBatch
    /\ scratch = 0

WriteOutput ==
    /\ call.op = "Zettel"
    /\ \E restrict_output_fields \in OutputRestrictions :
          Call([op |-> "main", restrict_output_fields |-> restrict_output_fields],
               main_output(zettel, restrict_output_fields))

NextOutput ==
    \/ NewZettel
    \/ WriteOutput

SpecOutput == InitOutput /\ [][NextOutput]_vars

\* ------------------------------------------------------------------ flatten
\* ":".join([k, item[k]]) for each key: TypeError unless every value is a str
KeyValueTexts(item) ==
    List([i \in DOMAIN item.v |-> Str(Chars(item.v[i][1]) \o <<":">> \o item.v[i][2].v)])

RECURSIVE flatten(_)
\* flatten with the two halves of its last line exchanged
flatten_tail_first(item) ==
    IF IsNone(item) THEN [exc |-> "none", v |-> <<Empty>>]
    ELSE IF IsDict(item)
         THEN IF \A i \in DOMAIN item.v : IsStr(item.v[i][2])
              THEN flatten(KeyValueTexts(item))
              ELSE [exc |-> "TypeError", v |-> <<>>]
    ELSE IF ~IsList(item) THEN [exc |-> "none", v |-> <<item>>]
    ELSE IF Len(item.v) = 0 THEN [exc |-> "none", v |-> item.v]
    ELSE LET first == flatten(item.v[1])
             rest == flatten(List(Tail(item.v)))
         IN  IF first.exc # "none" THEN first
             ELSE IF rest.exc # "none" THEN rest
             ELSE [exc |-> "none", v |-> rest.v \o first.v]

\* flatten(item): v is the list of str it returns
flatten(item) ==
    IF IsNone(item) THEN [exc |-> "none", v |-> <<Empty>>]
    ELSE IF IsDict(item)
         THEN IF \A i \in DOMAIN item.v : IsStr(item.v[i][2])
              THEN flatten(KeyValueTexts(item))
              ELSE [exc |-> "TypeError", v |-> <<>>]
    ELSE IF ~IsList(item) THEN [exc |-> "none", v |-> <<item>>]
    ELSE IF Len(item.v) = 0 THEN [exc |-> "none", v |-> item.v]
    ELSE LET first == flatten(item.v[1])
             rest == flatten(List(Tail(item.v)))
         IN  IF first.exc # "none" THEN first
             ELSE IF rest.exc # "none" THEN rest
             ELSE [exc |-> "none", v |-> first.v \o rest.v]

\* the dict comprehension of get_indexed_representation over self.zettel[i..]
RECURSIVE IndexedEntries(_, _)
IndexedEntries(z, i) ==
    IF i > Len(z.v) THEN [exc |-> "none", v |-> <<>>]
    ELSE LET flat == flatten(z.v[i][2])
             rest == IndexedEntries(z, i + 1)
         IN  IF flat.exc # "none" THEN [exc |-> flat.exc, v |-> <<>>]
             ELSE IF rest.exc # "none" THEN rest
             ELSE [exc |-> "none",
                   v |-> <<<<z.v[i][1], Str(Join(<<",">>, flat.v))>>>> \o rest.v]

get_indexed_representation(z) ==
    IF ~parse_zettel(z) THEN [z |-> z, exc |-> "ParseError", ret |-> <<>>]
    ELSE LET r == IndexedEntries(z, 1)
         IN  [z |-> z, exc |-> r.exc, ret |-> IF r.exc = "none" THEN Dict(r.v) ELSE <<>>]

\* decoded values, nested lists and a mapping with a null value among them
IndexValues ==
    { NULL, A, List(<<>>), List(<<A, B>>),
      List(<<List(<<A, B>>), A>>),
      List(<<B, List(<<>>), Dict(<<<<"year", A>>, <<"era", B>>>>), NULL>>),
      Dict(<<>>),
      Dict(<<<<"bibkey", A>>, <<"page", B>>>>),
      Dict(<<<<"bibkey", NULL>>>>) }
IndexNames == {"title", "tags", "cite", "filename"}
IndexDocs ==
    {Dict(d) : d \in {s \in SeqsUpTo(IndexNames \X IndexValues, MaxDocKeys) :
                        \A i, j \in DOMAIN s : i # j => s[i][1] # s[j][1]}}

InitIndex ==
    /\ zettel \in IndexDocs
    /\ exc = "none"
    /\ call = [op |-> "load"]
    /\ before = zettel
    /\ ret = <<>>
    /\ NoBatch
    /\ scratch = 0

GetIndexedRepresentation ==
    /\ call.op = "Zettel"
    /\ Call([op |-> "get_indexed_representation"], get_indexed_representation(zettel))

NextIndex ==
    \/ NewZettel
    \/ GetIndexedRepresentation

SpecIndex == InitIndex /\ [][NextIndex]_vars

\* ------------------------------------------------------------------ ZettelLoader
\* An input file is [suffix, outcome, top]: what reading and decoding it comes to.
\*   "cannot_open"  open(filepath) raises
\*   "io_error"     infile.read() raises
\*   "syntax_error" the YAML text does not parse: next(ydocs) raises
\*   "no_document"  the stream holds no document: next(ydocs) raises StopIteration
\*   "decoded"      next(ydocs) returns top, the first document
\* yaml.load_all only builds a generator, so its own try never catches anything.
File(suffix, outcome, top) == [suffix |-> suffix, outcome |-> outcome, top |-> top]

\* load_pure_yaml(filepath): the pair (ydoc, document) it returns
load_pure_yaml(file) ==
    IF file.outcome = "cannot_open" THEN [exc |-> "OSError", ydocs |-> <<>>]
    ELSE IF file.outcome \in {"io_error", "syntax_error", "no_document"}
         THEN [exc |-> "none", ydocs |-> <<<<Dict(<<>>), Empty>>>>]
    ELSE [exc |-> "none", ydocs |-> <<<<file.top, Empty>>>>]

\* ZettelLoader(infile): self.ydocs
ZettelLoader_init(file) ==
    IF file.suffix = ".yaml" THEN load_pure_yaml(file) ELSE [exc |-> "none", ydocs |-> <<>>]

\* the body of the loop of getZettels for one (ydoc, document): the assignment
\* ydoc["document"] = document comes before the isinstance test and raises
\* TypeError on None, a str and a list
getZettels(yaml_document) ==
    LET ydoc == yaml_document[1]
        document == yaml_document[2]
    IN  IF ~IsDict(ydoc) THEN Raised(NULL, "TypeError")
        ELSE Zettel_init(Dict(DictSet(ydoc.v, "document", document)))

\* decoded first documents: mappings, and the values that are not mappings
TopValues == YamlDocs \cup {NULL, A, List(<<A>>)}
Files ==
    {File(".yaml", outcome, NULL) :
        outcome \in {"cannot_open", "io_error", "syntax_error", "no_document"}}
    \cup {File(".yaml", "decoded", top) : top \in TopValues}
    \cup {File(".txt", "unread", NULL)}

\* gen_new_zettels is handed --file: before is the file, no record exists yet
InitLoader ==
    /\ before \in Files
    /\ zettel = NULL
    /\ exc = "none"
    /\ call = [op |-> "file"]
    /\ ret = <<>>
    /\ NoBatch
    /\ scratch = 0

\* loader = ZettelLoader(args.file): ret is self.ydocs
NewZettelLoader ==
    /\ call.op = "file"
    /\ exc' = ZettelLoader_init(before).exc
    /\ ret' = ZettelLoader_init(before).ydocs
    /\ call' = [op |-> "ZettelLoader"]
    /\ UNCHANGED <<zettel, before>>
    /\ UNCHANGED <<batchVars, scratch>>

\* for z in loader.getZettels(): the generator runs to its first yield, to the
\* exception that ends it, or to its end when self.ydocs is empty
GetZettels ==
    /\ call.op = "ZettelLoader"
    /\ exc = "none"
    /\ call' = [op |-> "getZettels"]
    /\ IF ret = <<>>
       THEN UNCHANGED <<zettel, exc>>
       ELSE /\ zettel' = getZettels(ret[1]).z
            /\ exc' = getZettels(ret[1]).exc
    /\ UNCHANGED <<ret, before>>
    /\ UNCHANGED <<batchVars, scratch>>

NextLoader ==
    \/ NewZettelLoader
    \/ GetZettels

SpecLoader == InitLoader /\ [][NextLoader]_vars

\* ------------------------------------------------------------------ records from scratch
\* def __init__(self, data={}): the default value of data is one dict, made when
\* the function is defined. Zettel() binds self.zettel to that dict and the
\* operations change self.zettel in place, so every record made by Zettel()
\* reads and writes the same dict: zettel is its content.
RecordContents(i) == zettel
RecordContentsBefore(i) == before

InitScratch ==
    /\ zettel = Dict(<<>>)
    /\ exc = Zettel_init(Dict(<<>>)).exc
    /\ call = [op |-> "Zettel", record |-> 1]
    /\ before = Dict(<<>>)
    /\ ret = <<>>
    /\ NoBatch
    /\ scratch = 1

\* Zettel(): one more record on the default dict, whatever it holds by now
ScratchZettel ==
    /\ pass = 0
    /\ scratch < MaxRecords
    /\ zettel' = Zettel_init(zettel).z
    /\ exc' = Zettel_init(zettel).exc
    /\ call' = [op |-> "Zettel", record |-> scratch + 1]
    /\ before' = zettel
    /\ ret' = <<>>
    /\ scratch' = scratch + 1
    /\ UNCHANGED batchVars

ScratchSetField ==
    \E i \in 1 .. scratch, value \in {A, B} :
        Call([op |-> "set_field", record |-> i, name |-> "title", value |-> value],
             set_field(RecordContents(i), "title", value))

ScratchDeleteField ==
    \E i \in 1 .. scratch, name \in {"title", "tags"} :
        Call([op |-> "delete_field", record |-> i, name |-> name],
             delete_field(RecordContents(i), name))

ScratchAppendListField ==
    \E i \in 1 .. scratch, value \in {A, B} :
        Call([op |-> "append_list_field", record |-> i, name |-> "tags", value |-> value],
             append_list_field(RecordContents(i), "tags", value))

NextScratch ==
    \/ ScratchZettel
    \/ ScratchSetField
    \/ ScratchDeleteField
    \/ ScratchAppendListField

SpecScratch == InitScratch /\ [][NextScratch]_vars

\* ------------------------------------------------------------------ claims
NullKeys(z) == {k \in Keys(z.v) : IsNone(DictGet(z.v, k, NULL))}

\* C3: validation rejects every mapping that holds a schema key with a null
\* value, so that no record that passed validation holds a present-but-null key
C3_NullRejected ==
    (call.op = "Zettel" /\ NullKeys(before) \cap ZettelFields # {}) => exc = "ParseError"

\* what C4 requires of a present cite / dates value
WellFormedStructured(x, allowed, required) ==
    /\ IsDict(x)
    /\ Keys(x.v) \subseteq allowed
    /\ HasKey(x.v, required)
    /\ \A k \in Keys(x.v) : IsStr(DictGet(x.v, k, NULL))

\* C4: a mapping whose cite (resp. dates) key is present is accepted only if the
\* value is a mapping with keys within {bibkey, page} (resp. {year, era}), the
\* required sub-field a string and the optional sub-field, if present, a string
C4_StructuredAccepted ==
    (call.op = "Zettel" /\ exc = "none") =>
        /\ HasKey(zettel.v, "cite") =>
               WellFormedStructured(DictGet(zettel.v, "cite", NULL), CitationFields, "bibkey")
        /\ HasKey(zettel.v, "dates") =>
               WellFormedStructured(DictGet(zettel.v, "dates", NULL), DatesFields, "year")

\* C10: for a valid record (no null values) and every field subset F, decoding the
\* output of get_yaml(F) and revalidating gives, for every field of F present in
\* the record except document, a value equal to the record's
C10_RoundTrip ==
    (call.op = "get_yaml" /\ exc = "none" /\ NullKeys(before) = {}) =>
        LET decoded == yaml_load(ret)
        IN  /\ parse_zettel(decoded)
            /\ \A f \in (call.restrict_to_fields \cap Keys(before.v)) \ {"document"} :
                   /\ HasKey(decoded.v, f)
                   /\ DictGet(decoded.v, f, NULL) = DictGet(before.v, f, NULL)

\* C5: when the re-validation of a primitive operation raises ParseError, the
\* record holds exactly what it held before the operation was called
C5_FailureAtomic ==
    (call.op # "Zettel" /\ call.op # "load" /\ exc = "ParseError") => zettel = before

NoDup(s) == \A i, j \in DOMAIN s : i # j => s[i] # s[j]
IsPrefix(s, t) == Len(s) <= Len(t) /\ SubSeq(t, 1, Len(s)) = s
Count(s, x) == Cardinality({i \in DOMAIN s : s[i] = x})

\* C7: append_list_field(name, value) on a list field (or an absent field) that
\* returns leaves the record unchanged when value is already an entry, and
\* otherwise adds value as the last entry and nothing else: the old entries keep
\* their order, value occurs once if the list was duplicate-free, and a
\* duplicate-free list stays duplicate-free
C7_AppendOnce ==
    (call.op = "append_list_field" /\ exc = "none"
        /\ IsList(DictGet(before.v, call.name, List(<<>>)))) =>
        LET old == DictGet(before.v, call.name, List(<<>>)).v
            new == DictGet(zettel.v, call.name, NULL)
        IN  /\ IsList(new)
            /\ IF call.value \in Range(old)
               THEN zettel = before
               ELSE /\ Len(new.v) = Len(old) + 1
                    /\ new.v[Len(new.v)] = call.value
            /\ IsPrefix(old, new.v)
            /\ NoDup(old) => (NoDup(new.v) /\ Count(new.v, call.value) = 1)
            /\ \A k \in Keys(before.v) \ {call.name} :
                   HasKey(zettel.v, k) /\ DictGet(zettel.v, k, NULL) = DictGet(before.v, k, NULL)
            /\ Keys(zettel.v) = Keys(before.v) \cup {call.name}

\* the same value appended twice: the second call found it among two entries
C7_Witness ==
    /\ call.op = "append_list_field"
    /\ exc = "none"
    /\ HasKey(before.v, call.name)
    /\ IsList(DictGet(before.v, call.name, NULL))
    /\ Len(DictGet(before.v, call.name, NULL).v) >= 2
    /\ call.value \in Range(DictGet(before.v, call.name, NULL).v)
    /\ zettel = before

\* the entries of s that do not stand at a 0-based position of P, in order
RECURSIVE KeepOthers(_, _, _)
KeepOthers(s, P, i) ==
    IF i > Len(s) THEN <<>>
    ELSE (IF (i - 1) \in P THEN <<>> ELSE <<s[i]>>) \o KeepOthers(s, P, i + 1)

\* C8: delete_list_field_entries(name, positions) that returns has removed
\* exactly the entries at the given 0-based positions of the list as it was
\* before the call, for any positions (repeated, unsorted), keeps the others in
\* order, removes the field when no entry remains, and is a no-op when the field
\* is absent
C8_DeleteEntries ==
    (call.op = "delete_list_field_entries" /\ exc = "none") =>
        IF ~HasKey(before.v, call.name) THEN zettel = before
        ELSE LET old == DictGet(before.v, call.name, NULL)
                 kept == KeepOthers(old.v, Range(call.positions), 1)
             IN  IsList(old) =>
                     IF kept = <<>> THEN ~HasKey(zettel.v, call.name)
                     ELSE DictGet(zettel.v, call.name, NULL) = List(kept)

\* what the spec's invariants ask of a record
SpecValid(z) ==
    /\ parse_zettel(z)
    /\ Keys(z.v) \subseteq ZettelFields
    /\ \A f \in Range(ZettelListFields) :
           HasKey(z.v, f) =>
               /\ IsList(DictGet(z.v, f, NULL))
               /\ \A x \in Range(DictGet(z.v, f, NULL).v) : IsStr(x)
    /\ HasKey(z.v, "cite") =>
           WellFormedStructured(DictGet(z.v, "cite", NULL), CitationFields, "bibkey")
    /\ HasKey(z.v, "dates") =>
           WellFormedStructured(DictGet(z.v, "dates", NULL), DatesFields, "year")

\* C2: after any sequence of primitive operations that each returned, the record
\* passes parse_zettel: known keys, tags/mentions lists of strings, cite/dates
\* mappings with only allowed sub-fields and their required sub-field
C2_StaysValid == exc = "none" => SpecValid(zettel)

SubFieldOps == {"set_cite_bibkey", "set_cite_page", "set_dates_year", "set_dates_era"}
FieldOf(op) == IF op \in {"set_cite_bibkey", "set_cite_page"} THEN "cite" ELSE "dates"
SubFieldOf(op) ==
    CASE op = "set_cite_bibkey" -> "bibkey"
      [] op = "set_cite_page" -> "page"
      [] op = "set_dates_year" -> "year"
      [] OTHER -> "era"

\* C9: set_cite_bibkey, set_cite_page, set_dates_year and set_dates_era leave the
\* whole record unchanged when cite / dates is absent, never creating it; when it
\* is present they change only the named sub-field, which takes a non-empty value
C9_GuardedSubField ==
    call.op \in SubFieldOps =>
        LET field == FieldOf(call.op)
            sub == SubFieldOf(call.op)
            old == DictGet(before.v, field, NULL)
            new == DictGet(zettel.v, field, NULL)
        IN  /\ Keys(zettel.v) = Keys(before.v)
            /\ ~HasKey(before.v, field) => (zettel = before /\ exc = "none")
            /\ \A k \in Keys(before.v) \ {field} :
                   DictGet(zettel.v, k, NULL) = DictGet(before.v, k, NULL)
            /\ ~IsDict(old) => new = old
            /\ IsDict(old) =>
                   /\ IsDict(new)
                   /\ Keys(new.v) \ {sub} = Keys(old.v) \ {sub}
                   /\ \A k \in Keys(old.v) \ {sub} :
                          DictGet(new.v, k, NULL) = DictGet(old.v, k, NULL)
                   /\ IF PyLen(call.value) > 0
                      THEN DictGet(new.v, sub, NULL) = call.value
                      ELSE new = old

\* set_citation("a", "b") then set_cite_bibkey("b"): the page is kept, beside a title
C9_Witness ==
    /\ call.op = "set_cite_bibkey"
    /\ exc = "none"
    /\ HasKey(before.v, "title")
    /\ DictGet(before.v, "cite", NULL) = Dict(<<<<"bibkey", A>>, <<"page", B>>>>)
    /\ DictGet(zettel.v, "cite", NULL) = Dict(<<<<"bibkey", B>>, <<"page", B>>>>)

DestructiveOps == {"reset_list_field", "delete_field", "delete_list_field_entries"}
AdditiveOps ==
    {"set_field", "set_citation", "set_cite_bibkey", "set_cite_page", "set_dates",
     "set_dates_year", "set_dates_era", "append_list_field", "load_field"}
\* a request that asks for a destructive operation on this record
AsksDestructive(r) ==
    /\ ~Falsy(r.value)
    /\ \/ r.prefix \in {"reset", "delete"}
       \/ r.prefix = "remove_entries_in" /\ r.value.v.ok /\ r.value.v.zettel_id = FirstId
\* a request that asks for a set or an append
AsksAdditive(r) == ~Falsy(r.value) /\ r.prefix \in {"set", "append"}
CalledFor(i, ops) == \E k \in DOMAIN applied : applied[k].req = i /\ applied[k].op \in ops
TagRequests == {r \in Range(vargs) : r.what = "tags"}

\* C1: whatever the order of the requests in the batch, no destructive operation
\* is called after an additive one, every destructive request has been acted on
\* before the first additive operation is called, every set/append request has
\* been acted on when the engine returns, and a batch whose requests on tags are
\* delete(tags) and append(tags, "a") returns with tags = ["a"]
C1_TwoPasses ==
    /\ \A i, j \in DOMAIN applied :
           i < j => ~(applied[i].op \in AdditiveOps /\ applied[j].op \in DestructiveOps)
    /\ (pass = 3 \/ \E k \in DOMAIN applied : applied[k].op \in AdditiveOps) =>
           \A i \in DOMAIN vargs : AsksDestructive(vargs[i]) => CalledFor(i, DestructiveOps)
    /\ pass = 3 =>
           \A i \in DOMAIN vargs : AsksAdditive(vargs[i]) => CalledFor(i, AdditiveOps)
    /\ (pass = 3 /\ TagRequests = {Req("delete", "tags", Bool(TRUE)),
                                   Req("append", "tags", List(<<A>>))}) =>
           DictGet(zettel.v, "tags", NULL) = List(<<A>>)

\* append(tags, "a") listed before delete(tags), on a record that had tags
C1_Witness ==
    /\ pass = 3
    /\ vargs = <<Req("append", "tags", List(<<A>>)), Req("delete", "tags", Bool(TRUE))>>
    /\ DictGet(before.v, "tags", NULL) = List(<<B, A>>)
    /\ DictGet(zettel.v, "tags", NULL) = List(<<A>>)
    /\ applied = <<[req |-> 2, op |-> "delete_field", exc |-> "none"],
                   [req |-> 1, op |-> "append_list_field", exc |-> "none"]>>

\* C6: once an operation of a batch has raised ParseError, no later operation of
\* the batch is called, in either loop: only the last call made can have raised
C6_NoCallAfterFailure ==
    \A k \in DOMAIN applied : k < Len(applied) => applied[k].exc # "ParseError"

\* a ParseError in the first loop with a request still to come
C6_Witness ==
    /\ exc = "ParseError"
    /\ pass = 1
    /\ applied # <<>>
    /\ \E j \in (idx + 1) .. Len(vargs) :
           ~Falsy(vargs[j].value) /\ \A k \in DOMAIN applied : applied[k].req # j

\* the canonical field order of the YAML body
CanonicalOrder ==
    <<"title", "bibkey", "bibtex", "ris", "inline", "url", "summary", "comment", "note",
      "tags", "mentions", "cite", "dates", "filename">>
PositionIn(s, x) == CHOOSE i \in DOMAIN s : s[i] = x
EmittedKeys(entries) == [i \in DOMAIN entries |-> entries[i][1]]

\* C11: a returning get_yaml(restrict_to_fields) emits a field only if it is
\* present in the record and in restrict_to_fields, never emits document, emits
\* in canonical field order, returns the empty text when no field qualifies, and
\* leaves the record unchanged.
C11_YamlSelection ==
    (call.op = "get_yaml" /\ exc = "none") =>
        LET emitted == EmittedKeys(ret)
            present == Keys(before.v) \cap call.restrict_to_fields
        IN  /\ Range(emitted) \subseteq present
            /\ "document" \notin Range(emitted)
            /\ Range(emitted) \subseteq Range(CanonicalOrder)
            /\ \A i, j \in DOMAIN emitted :
                   i < j => PositionIn(CanonicalOrder, emitted[i])
                              < PositionIn(CanonicalOrder, emitted[j])
            /\ (present \ {"document"} = {} => ret = <<>>)
            /\ zettel = before

\* get_yaml returned two fields of a record that holds them in the opposite order
C11_Witness ==
    /\ call.op = "get_yaml"
    /\ exc = "none"
    /\ Len(ret) = 2
    /\ Len(before.v) = 2
    /\ before.v[1][1] = ret[2][1]

\* the YAML text and the document text of the record main writes out
YamlText == Dump(get_yaml(before, call.restrict_output_fields).ret)
DocumentText == get_document(before).v
Frame(yamlText, documentText) ==
    <<"-", "-", "-", "\n">> \o yamlText \o <<"\n", "-", "-", "-", "\n">> \o documentText \o <<"\n">>

\* C12 as stated: non-empty YAML text is framed as "---\n" + yamlText + "\n---\n" +
\* documentText + "\n"; with empty YAML text and a non-empty document only the
\* stripped document and one newline are written; with both empty nothing is.
C12_Framing ==
    call.op = "main" =>
        /\ YamlText # <<>> => ret = <<Frame(YamlText, DocumentText)>>
        /\ (YamlText = <<>> /\ DocumentText # <<>>) => ret = <<RStrip(DocumentText) \o <<"\n">>>>
        /\ (YamlText = <<>> /\ DocumentText = <<>>) => ret = <<>>

\* C12 amended: the framing holds with yamlText and documentText each taken with
\* their trailing whitespace removed; nothing is written when both are then empty.
C12_FramingStripped ==
    call.op = "main" =>
        LET yamlText == RStrip(YamlText)
            documentText == RStrip(DocumentText)
        IN  /\ yamlText # <<>> => ret = <<Frame(yamlText, documentText)>>
            /\ (yamlText = <<>> /\ documentText # <<>>) => ret = <<documentText \o <<"\n">>>>
            /\ (yamlText = <<>> /\ documentText = <<>>) => ret = <<>>
            /\ zettel = before

\* main framed a non-empty YAML text and a document that ends in whitespace
C12_Witness ==
    /\ call.op = "main"
    /\ YamlText # <<>>
    /\ RStrip(DocumentText) # <<>>
    /\ RStrip(DocumentText) # DocumentText
    /\ Len(ret) = 1

\* the values flatten is stated for: null, str, lists of such values, and mappings
\* whose values are str
RECURSIVE Flattenable(_)
Flattenable(x) ==
    CASE IsNone(x) -> TRUE
      [] IsStr(x) -> TRUE
      [] IsList(x) -> \A i \in DOMAIN x.v : Flattenable(x.v[i])
      [] IsDict(x) -> \A i \in DOMAIN x.v : IsStr(x.v[i][2])
      [] OTHER -> FALSE

\* the stated laws of flatten; a list is folded over its first n elements
RECURSIVE FlattenLaw(_)
RECURSIVE ConcatLaw(_, _)
FlattenLaw(x) ==
    CASE IsNone(x) -> <<Str(<<>>)>>
      [] IsStr(x) -> <<x>>
      [] IsList(x) -> ConcatLaw(x.v, Len(x.v))
      [] OTHER -> [i \in DOMAIN x.v |-> Str(Chars(x.v[i][1]) \o <<":">> \o x.v[i][2].v)]
ConcatLaw(items, n) ==
    IF n = 0 THEN <<>> ELSE ConcatLaw(items, n - 1) \o FlattenLaw(items[n])

\* C13: flatten returns on null, str, lists and str-valued mappings with
\* flatten(null) = [""], flatten(str) = [str], flatten(list) = the concatenation
\* of the flattened elements in order, flatten(mapping) = ["k:v", ...] in
\* iteration order; get_indexed_representation maps each present field of a
\* valid record to the comma-joined flatten of its value and leaves the record
\* unchanged.
C13_Flatten ==
    (call.op = "get_indexed_representation"
        /\ \A i \in DOMAIN before.v : Flattenable(before.v[i][2])) =>
        /\ exc = "none"
        /\ ret = Dict([i \in DOMAIN before.v |->
                        <<before.v[i][1], Str(Join(<<",">>, FlattenLaw(before.v[i][2])))>>])
        /\ zettel = before

\* get_indexed_representation returned for a record with a mapping and a list
\* that holds a list
C13_Witness ==
    /\ call.op = "get_indexed_representation"
    /\ exc = "none"
    /\ \E i \in DOMAIN before.v : IsDict(before.v[i][2]) /\ before.v[i][2].v # <<>>
    /\ \E i \in DOMAIN before.v :
          /\ IsList(before.v[i][2])
          /\ \E j \in DOMAIN before.v[i][2].v : IsList(before.v[i][2].v[j])

\* a .yaml file whose loading fails or whose first document is not a mapping
NotAMapping(file) ==
    /\ file.suffix = ".yaml"
    /\ file.outcome \in {"cannot_open", "io_error", "syntax_error", "no_document"}
          \/ (file.outcome = "decoded" /\ ~IsDict(file.top))

\* C14: for an I/O failure, a YAML syntax failure, no first document or a first
\* document that is not a mapping, getZettels yields a record built from an
\* empty mapping (with the loader's empty document text) and raises nothing.
C14_DecodeFailureRecovered ==
    (call.op = "getZettels" /\ NotAMapping(before)) =>
        /\ exc = "none"
        /\ IsDict(zettel)
        /\ Keys(zettel.v) \subseteq {"document"}
        /\ get_document(zettel) = Empty

\* the sub-fields a set request asks for: the first text, and the second only if
\* one was supplied
Requested(first, second, first_value, second_value) ==
    {<<first, first_value>>} \cup (IF IsNone(second_value) THEN {} ELSE {<<second, second_value>>})
RequestedBy(r, first, second) ==
    Requested(first, second, r.value.v[1],
              IF Len(r.value.v) > 1 THEN Str(Join(<<",">>, Tail(r.value.v))) ELSE NULL)
HoldsExactly(z, field, pairs) ==
    /\ HasKey(z.v, field)
    /\ IsDict(DictGet(z.v, field, NULL))
    /\ Range(DictGet(z.v, field, NULL).v) = pairs

\* C15: set_citation(bibkey, page), called directly or asked for in a batch by
\* set_cite, leaves cite with exactly the requested bibkey, and page only if one
\* was supplied: nothing of an earlier citation survives; likewise set_dates.
C15_WholeFieldReplaced ==
    /\ (call.op = "set_citation" /\ exc = "none") =>
           HoldsExactly(zettel, "cite", Requested("bibkey", "page", call.bibkey, call.page))
    /\ (call.op = "set_dates" /\ exc = "none") =>
           HoldsExactly(zettel, "dates", Requested("year", "era", call.year, call.era))
    /\ (pass = 3 /\ exc = "none") =>
           \A i \in DOMAIN vargs :
               /\ (vargs[i].prefix = "set" /\ vargs[i].what = "cite") =>
                      HoldsExactly(zettel, "cite", RequestedBy(vargs[i], "bibkey", "page"))
               /\ (vargs[i].prefix = "set" /\ vargs[i].what = "dates") =>
                      HoldsExactly(zettel, "dates", RequestedBy(vargs[i], "year", "era"))

\* C16: a record made with Zettel() is empty when it is made, whatever was done
\* to other records before, and an operation on one record leaves the content
\* of every other record made with Zettel() as it was.
C16_RecordsIndependent ==
    /\ call.op = "Zettel" => (exc = "none" /\ RecordContents(call.record) = Dict(<<>>))
    /\ call.op # "Zettel" =>
           \A j \in (1 .. scratch) \ {call.record} :
               RecordContents(j) = RecordContentsBefore(j)

====
